---- MODULE Spec2Model ----
(***************************************************************************)
(* Execution-provenance engine of Instrumentation/instrumentation/         *)
(* tracing.py: the value fingerprinter (get_unique_id), value logging      *)
(* (log_shape_info), the call interception wrapper (make_trace_function)   *)
(* and the configuration loader (load_trace_config).                       *)
(*                                                                         *)
(* Node names are the strings the code builds.  sha256 is taken to be      *)
(* injective: a fingerprint is modelled by the bytes that get hashed.      *)
(***************************************************************************)
EXTENDS Integers, Sequences, FiniteSets, TLC

VARIABLES
    execution_dag,    \* nx.DiGraph: [nodes, attr, succ, eattr]
    call_stack,       \* list of node names
    call_counts,      \* dict base_name -> next sequence number
    unique_id_cache,  \* dict id(obj) -> fingerprint
    config_loaded,    \* module flag
    wrappers,         \* target -> unique_calls flags of the wrappers installed on it, innermost first
    frames,           \* interpreter stack of active wrapper invocations
    budget,           \* invocations the driver may still start
    hist,             \* history of the run (observations only)
    fp,               \* the inputs and results of a run of a pure function, or the options of a process
    levels,           \* what assign_levels returned for execution_dag, if it ran
    files,            \* the file system, and the last save_dag / plot_dag on it
    threads           \* per thread: where it is in the wrapper, and its locals

vars == <<execution_dag, call_stack, call_counts, unique_id_cache, config_loaded,
          wrappers, frames, budget, hist, fp, levels, files, threads>>

(***************************************************************************)
(* Bounds                                                                  *)
(***************************************************************************)
MaxCalls == 3
MaxChainCalls == 5
MaxTensorLen == 2
MaxElem == 1
MaxDictLen == 2
MaxObjs == 2
MaxLoads == 2
MaxLoadCalls == 2
MaxDagNodes == 3
MaxDagEdges == 4
MaxFileOps == 2
MaxPersistCalls == 1
MaxStepCalls == 2
MaxThreadCalls == 3
MaxRows == 3
MaxMetric == 1
MaxFpsSteps == 2

(***************************************************************************)
(* Sequence helpers                                                        *)
(***************************************************************************)
Last(s) == s[Len(s)]
Front(s) == SubSeq(s, 1, Len(s) - 1)
Range(s) == {s[i] : i \in 1..Len(s)}

(***************************************************************************)
(* networkx.DiGraph as used by the module: nodes and adjacency keep        *)
(* insertion order, attributes are dicts.                                  *)
(***************************************************************************)
EmptyDag == [nodes |-> <<>>, attr |-> <<>>, succ |-> <<>>, eattr |-> <<>>]

\* assign_levels has not run on the graph as it is now
NoLevels == [done |-> FALSE]

\* a thread outside every wrapper
IdleThread == [pc |-> "idle", fn |-> "", args |-> <<>>, read |-> 0, stale |-> FALSE,
               overlap |-> "", layers |-> <<>>]

\* the threads of the process, none of them in a wrapper
NoThreads == [th \in {1, 2} |-> IdleThread]

\* no file exists and neither save_dag nor plot_dag has run
NoFiles == [fs |-> <<>>, saved |-> [done |-> FALSE], plotted |-> [done |-> FALSE], ops |-> 0]

HasNode(G, n) == n \in DOMAIN G.attr

HasEdge(G, u, v) == <<u, v>> \in DOMAIN G.eattr

Successors(G, n) == G.succ[n]

\* add_node(n, **attrs): creates the node, or updates the attributes of an existing one
AddNode(G, n, attrs) ==
    IF HasNode(G, n)
    THEN [G EXCEPT !.attr = [m \in DOMAIN G.attr |->
                               IF m = n THEN attrs @@ G.attr[m] ELSE G.attr[m]]]
    ELSE [G EXCEPT !.nodes = Append(G.nodes, n),
                   !.attr = (n :> attrs) @@ G.attr,
                   !.succ = (n :> <<>>) @@ G.succ]

\* add_edge(u, v, **attrs): creates missing endpoints (u first) without attributes,
\* then creates the edge or updates the attributes of the existing one
AddEdge(G, u, v, attrs) ==
    LET G1 == IF HasNode(G, u) THEN G ELSE AddNode(G, u, <<>>)
        G2 == IF HasNode(G1, v) THEN G1 ELSE AddNode(G1, v, <<>>)
    IN IF HasEdge(G2, u, v)
       THEN [G2 EXCEPT !.eattr = [e \in DOMAIN G2.eattr |->
                                    IF e = <<u, v>> THEN attrs @@ G2.eattr[e] ELSE G2.eattr[e]]]
       ELSE [G2 EXCEPT !.succ = [m \in DOMAIN G2.succ |->
                                    IF m = u THEN Append(G2.succ[m], v) ELSE G2.succ[m]],
                       !.eattr = (<<u, v>> :> attrs) @@ G2.eattr]

\* G.nodes[n][key] = value, G[u][v][key] = value
SetNodeAttr(G, n, key, value) ==
    [G EXCEPT !.attr = [m \in DOMAIN G.attr |->
                          IF m = n THEN (key :> value) @@ G.attr[m] ELSE G.attr[m]]]

SetEdgeAttr(G, u, v, key, value) ==
    [G EXCEPT !.eattr = [e \in DOMAIN G.eattr |->
                           IF e = <<u, v>> THEN (key :> value) @@ G.eattr[e] ELSE G.eattr[e]]]

(***************************************************************************)
(* Runtime values.  A value is a record: k is type(obj).__name__, oid is   *)
(* id(obj); tensors carry dtype, flattened data and shape; lists and      *)
(* tuples carry items; dicts carry items as <<key, value>> pairs in        *)
(* insertion order; primitives carry v.  A dict key is [k, n, s]: an int   *)
(* key has its value in n, a str key its text in s.  An instance of a      *)
(* user class (k = "Obj") carries what pickle.dumps does with it (bytes, an *)
(* exception line 132 catches, or another exception) and whether its       *)
(* __str__ returns.                                                        *)
(***************************************************************************)
IsTensor(obj) == obj.k = "Tensor"
IsPrimitive(obj) == obj.k \in {"int", "float", "str", "bool"}
IsContainer(obj) == obj.k \in {"dict", "list", "tuple"}

RECURSIVE SumSeq(_)
SumSeq(s) == IF s = <<>> THEN 0 ELSE s[1] + SumSeq(Tail(s))

RECURSIVE MaxSeq(_)
MaxSeq(s) == IF Len(s) = 1 THEN s[1]
             ELSE LET m == MaxSeq(Tail(s)) IN IF s[1] > m THEN s[1] ELSE m

RECURSIVE MinSeq(_)
MinSeq(s) == IF Len(s) = 1 THEN s[1]
             ELSE LET m == MinSeq(Tail(s)) IN IF s[1] < m THEN s[1] ELSE m

Abs(x) == IF x < 0 THEN -x ELSE x

RECURSIVE Gcd(_, _)
Gcd(a, b) == IF b = 0 THEN a ELSE Gcd(b, a % b)

\* tensor.mean() as the exact quotient sum/numel, in lowest terms
Mean(data) ==
    LET s == SumSeq(data)
        g == Gcd(Abs(s), Len(data))
    IN <<s \div g, Len(data) \div g>>

\* repr(key) of a dict key
KeyRepr(key) == <<key.k, key.n, key.s>>

\* the values a container holds, in iteration order
Kids(obj) ==
    IF obj.k = "dict" THEN [i \in 1..Len(obj.items) |-> obj.items[i][2]]
    ELSE IF obj.k \in {"list", "tuple"} THEN obj.items
    ELSE <<>>

\* str(obj) / repr(obj): the text shows the content, and for a dict the insertion order
RECURSIVE Repr(_)
Repr(obj) ==
    LET kids == [i \in 1..Len(Kids(obj)) |-> Repr(Kids(obj)[i])]
    IN CASE IsTensor(obj) -> <<"tensor", obj.data, obj.shape, obj.dtype>>
         [] obj.k \in {"list", "tuple"} -> <<obj.k, kids>>
         [] obj.k = "dict" ->
               <<"dict", [i \in 1..Len(kids) |-> <<KeyRepr(obj.items[i][1]), kids[i]>>]>>
         [] IsPrimitive(obj) -> <<obj.k, obj.v>>
         [] OTHER -> <<obj.k>>

\* Python's < between two dict keys: defined inside the numeric types and inside str
StrOrd == [a |-> 1, b |-> 2, c |-> 3]
KeyClass(key) == IF key.k = "str" THEN "str" ELSE "num"
KeyOrd(key) == IF key.k = "str" THEN StrOrd[key.s] ELSE key.n
Comparable(k1, k2) == KeyClass(k1) = KeyClass(k2)

\* sorted(dct.items()): raises TypeError when two keys cannot be compared
SortRaises(items) ==
    \E i, j \in 1..Len(items) : i # j /\ ~Comparable(items[i][1], items[j][1])

RECURSIVE InsertSorted(_, _)
InsertSorted(it, s) ==
    IF s = <<>> THEN <<it>>
    ELSE IF KeyOrd(it[1]) < KeyOrd(s[1][1]) THEN <<it>> \o s
    ELSE <<s[1]>> \o InsertSorted(it, Tail(s))

RECURSIVE SortedItems(_)
SortedItems(items) ==
    IF items = <<>> THEN <<>>
    ELSE InsertSorted(items[Len(items)], SortedItems(Front(items)))

\* line 88-97: raises on an empty tensor; mean() raises on an integer dtype
TensorRaises(t) == Len(t.data) = 0 \/ t.dtype = "int"

tensor_fingerprint(t) ==
    <<SumSeq(t.data), Mean(t.data), MaxSeq(t.data), MinSeq(t.data), t.data[1], Last(t.data)>>

\* str(obj) raises: the __str__ of the instance does, or that of an item a list, tuple
\* or dict shows
RECURSIVE StrRaises(_)
StrRaises(obj) ==
    IF obj.k = "Obj" THEN ~obj.strOK
    ELSE \E i \in 1..Len(Kids(obj)) : StrRaises(Kids(obj)[i])

\* line 160: sha256 of "<type name>:<str(obj)>"
FallbackHash(obj) == <<"text", obj.k, Repr(obj)>>

(***************************************************************************)
(* get_unique_id(obj) with the cache it reads and writes.  The result is   *)
(* [h |-> fingerprint, cache |-> cache afterwards, raised |-> whether the  *)
(* call left by an exception].                                             *)
(***************************************************************************)
RECURSIVE GetUniqueId(_, _)
RECURSIVE HashItems(_, _)

\* the ids so far with the id of the next item, unless get_unique_id raised on it
WithItem(r, rest) ==
    IF r.raised THEN [hs |-> <<>>, cache |-> r.cache, raised |-> TRUE]
    ELSE [hs |-> <<r.h>> \o rest.hs, cache |-> rest.cache, raised |-> rest.raised]

\* tuple(get_unique_id(item) for item in items), threading the cache; an exception
\* of get_unique_id ends it
HashItems(items, cache) ==
    IF items = <<>> THEN [hs |-> <<>>, cache |-> cache, raised |-> FALSE]
    ELSE LET r == GetUniqueId(items[1], cache)
         IN WithItem(r, IF r.raised THEN r ELSE HashItems(Tail(items), r.cache))

\* an exception inside the try of lines 116-156 before any item is hashed:
\* tensor_fingerprint raising, sorted() raising in dict_fingerprint, pickle.dumps
\* raising what line 132 does not catch, str(obj) raising at line 134
TryRaises(obj) ==
    \/ IsTensor(obj) /\ TensorRaises(obj)
    \/ obj.k = "dict" /\ SortRaises(obj.items)
    \/ obj.k = "Obj" /\ obj.pickle = "uncaught"
    \/ obj.k = "Obj" /\ obj.pickle = "caught" /\ ~obj.strOK

\* the items whose ids lines 100, 103 and 108 take, in the order they take them
HashedItems(obj) ==
    IF obj.k = "dict"
    THEN LET sorted == SortedItems(obj.items) IN [i \in 1..Len(sorted) |-> sorted[i][2]]
    ELSE Kids(obj)

\* lines 117-149 given hs, the ids of the items: sha256 of the fingerprint bytes
TryFingerprint(obj, hs) ==
    CASE IsTensor(obj) -> <<"json", "torch.Tensor", tensor_fingerprint(obj)>>
      [] obj.k \in {"list", "tuple"} -> <<"json", obj.k, hs>>
      [] obj.k = "dict" ->
           LET sorted == SortedItems(obj.items)
           IN <<"json", "dict", [i \in 1..Len(sorted) |-> <<KeyRepr(sorted[i][1]), hs[i]>>]>>
      [] IsPrimitive(obj) -> <<"text", "primitive", Repr(obj)>>
      [] obj.k = "Obj" /\ obj.pickle = "caught" ->
           <<"text", "unserializable_object", obj.k, Repr(obj)>>
      [] OTHER -> <<"pickle", Repr(obj)>>

\* lines 81-85: the cache is consulted first, by id(obj)
CacheHit(obj, cache) == obj.oid \in DOMAIN cache

\* lines 150-163 given r, the outcome of the try: its hash is cached and returned; an
\* exception ends in the handler, whose own str(obj) of line 160 is not guarded: the
\* fallback hash is cached and returned, or the call leaves by the exception of str
Conclude(obj, r) ==
    IF ~r.raised
    THEN [h |-> TryFingerprint(obj, r.hs), raised |-> FALSE,
          cache |-> (obj.oid :> TryFingerprint(obj, r.hs)) @@ r.cache]
    ELSE IF StrRaises(obj)
    THEN [h |-> <<"raised">>, raised |-> TRUE, cache |-> r.cache]
    ELSE [h |-> FallbackHash(obj), raised |-> FALSE,
          cache |-> (obj.oid :> FallbackHash(obj)) @@ r.cache]

GetUniqueId(obj, cache) ==
    IF CacheHit(obj, cache)
    THEN [h |-> cache[obj.oid], cache |-> cache, raised |-> FALSE]
    ELSE Conclude(obj, IF TryRaises(obj) THEN [hs |-> <<>>, cache |-> cache, raised |-> TRUE]
                       ELSE HashItems(HashedItems(obj), cache))

(***************************************************************************)
(* log_shape_info(name, obj, parent_node) on S = [dag, cache].             *)
(***************************************************************************)
\* str(key) of a dict key, str(idx) of a list index
KeyStr(key) == IF key.k = "str" THEN key.s ELSE ToString(key.n)

\* the (key, value) pairs line 191 iterates over, keys as text
Entries(obj) ==
    IF obj.k = "dict"
    THEN [i \in 1..Len(obj.items) |-> <<KeyStr(obj.items[i][1]), obj.items[i][2]>>]
    ELSE [i \in 1..Len(obj.items) |-> <<ToString(i - 1), obj.items[i]>>]

\* lines 195-210: a leaf gets a fingerprint and, once, a node below parent_node; an
\* exception of get_unique_id is caught at line 209 and nothing is added
LogLeaf(S, name, obj, parent) ==
    LET r == GetUniqueId(obj, S.cache)
        output_item_node == parent \o "." \o name
    IN IF r.raised \/ HasNode(S.dag, output_item_node)
       THEN [dag |-> S.dag, cache |-> r.cache]
       ELSE [dag |-> AddEdge(AddNode(S.dag, output_item_node, [type |-> obj.k, id |-> r.h]),
                             parent, output_item_node, <<>>),
             cache |-> r.cache]

\* the (name, value) pairs lines 191-192 make of a container called `name`
SubItems(name, obj) ==
    LET entries == Entries(obj)
    IN [i \in 1..Len(entries) |-> <<name \o "[" \o entries[i][1] \o "]", entries[i][2]>>]

RECURSIVE LogShapeInfo(_, _, _, _)
RECURSIVE LogAll(_, _, _)

\* log_shape_info on every <<name, value>> of items in turn, below the same parent_node
LogAll(S, items, parent) ==
    IF items = <<>> THEN S
    ELSE LogAll(LogShapeInfo(S, items[1][1], items[1][2], parent), Tail(items), parent)

\* lines 183-208: the entries of a container are logged with the container's NAME as
\* their parent_node (line 193)
LogShapeInfo(S, name, obj, parent) ==
    IF IsContainer(obj) THEN LogAll(S, SubItems(name, obj), name)
    ELSE LogLeaf(S, name, obj, parent)

\* lines 332-339: a dict, list or tuple result is logged entry by entry, as
\* Output[key], anything else as Output
OutputItems(result) ==
    IF IsContainer(result) THEN SubItems("Output", result) ELSE << <<"Output", result>> >>

(***************************************************************************)
(* The observed pipeline: the targets a configuration can name, whether    *)
(* inspect.signature accepts them, and the values they are called with     *)
(* and return.                                                             *)
(***************************************************************************)
Targets == {"f", "g", "h", "u"}

\* inspect.signature(func) raises ValueError for a callable without signature (a builtin)
SigOK(t) == t # "u"

T123 == [k |-> "Tensor", oid |-> 1, dtype |-> "float", data |-> <<1, 2, 3>>, shape |-> <<3>>]
T456 == [k |-> "Tensor", oid |-> 2, dtype |-> "float", data |-> <<4, 5, 6>>, shape |-> <<3>>]
Int7 == [k |-> "int", oid |-> 3, v |-> 7]
NoneVal == [k |-> "NoneType", oid |-> 4]
List1 == [k |-> "list", oid |-> 5, items |-> <<T123, Int7>>]
Tuple1 == [k |-> "tuple", oid |-> 6, items |-> <<T123, T456>>]

\* bound arguments of one call: <<name, value>> pairs in signature order
ArgChoices(t) ==
    CASE t = "f" -> { << <<"x", T123>> >> }
      [] t = "g" -> { << <<"x", T123>> >>, << <<"x", T456>> >> }
      [] t = "h" -> { << <<"xs", List1>> >> }
      [] OTHER -> { <<>> }

ResultChoices(t) ==
    CASE t = "f" -> { T123 }
      [] t = "g" -> { T456 }
      [] t = "h" -> { Tuple1 }
      [] OTHER -> { NoneVal }

(***************************************************************************)
(* The wrapper of make_trace_function, lines 228-346.                      *)
(***************************************************************************)
\* str(tuple(obj.shape))
RECURSIVE JoinInts(_)
JoinInts(s) == IF Len(s) = 1 THEN ToString(s[1])
               ELSE ToString(s[1]) \o ", " \o JoinInts(Tail(s))

ShapeStr(shape) ==
    IF shape = <<>> THEN "()"
    ELSE IF Len(shape) = 1 THEN "(" \o ToString(shape[1]) \o ",)"
    ELSE "(" \o JoinInts(shape) \o ")"

\* lines 268-276: type name, then the shape or the length where there is one
Summary(val) ==
    IF IsTensor(val) THEN val.k \o ShapeStr(val.shape)
    ELSE IF IsContainer(val) THEN val.k \o "[len=" \o ToString(Len(val.items)) \o "]"
    ELSE val.k

RECURSIVE JoinSummaries(_)
JoinSummaries(args) ==
    IF args = <<>> THEN ""
    ELSE IF Len(args) = 1 THEN Summary(args[1][2])
    ELSE Summary(args[1][2]) \o "|" \o JoinSummaries(Tail(args))

\* lines 261-279: empty when inspect.signature raises
ArgTypesStr(t, args) == IF SigOK(t) THEN JoinSummaries(args) ELSE ""

\* lines 234-236: the sequence number of this invocation
UniqueId(counts, base_name) ==
    IF base_name \in DOMAIN counts THEN counts[base_name] ELSE 0

\* a wrapper that names the node after the function in both modes
NodeNameShared(base_name, unique_calls, unique_id) == base_name

\* lines 232-242
NodeName(base_name, unique_calls, unique_id) ==
    IF unique_calls THEN base_name \o "_" \o ToString(unique_id) ELSE base_name

\* a wrapper that adds the node afresh on every invocation, losing the earlier count
TouchNodeOverwrite(G, node_name) ==
    SetNodeAttr(AddNode(G, node_name, [count |-> 0]), node_name, "count", 1)

\* lines 245-250: create the node once, count the invocation
TouchNode(G, node_name) ==
    LET G0 == IF HasNode(G, node_name) THEN G ELSE AddNode(G, node_name, [count |-> 0])
    IN SetNodeAttr(G0, node_name, "count", G0.attr[node_name].count + 1)

\* lines 284-290: the caller -> callee edge
LinkCaller(G, caller, node_name, arg_types_str) ==
    IF HasEdge(G, caller, node_name)
    THEN SetEdgeAttr(SetEdgeAttr(G, caller, node_name, "weight",
                                 G.eattr[<<caller, node_name>>].weight + 1),
                     caller, node_name, "arg_types", arg_types_str)
    ELSE AddEdge(G, caller, node_name, [weight |-> 1, arg_types |-> arg_types_str])

\* lines 298-301: the edge the sibling step adds, <<>> when it adds none
SiblingEdge(G, existing_children, node_name) ==
    IF existing_children # <<>>
       /\ Last(existing_children) # node_name
       /\ ~HasEdge(G, Last(existing_children), node_name)
    THEN <<Last(existing_children), node_name>>
    ELSE <<>>

\* lines 302-308
LinkSibling(G, existing_children, node_name, arg_types_str) ==
    LET e == SiblingEdge(G, existing_children, node_name)
    IN IF e = <<>> THEN G
       ELSE AddEdge(G, e[1], e[2],
                    [weight |-> 1, relationship |-> "sibling", arg_types |-> arg_types_str])

\* lines 229-324 of one wrapper (arguments logged by lines 321-322) on St = [dag, cache, stack, counts, began, layers]:
\* node bookkeeping, edges, push, argument logging.  `by` is the index in began of
\* the invocation that made this call (0: the top level).
EnterWrapper(St, t, unique_calls, args, by) ==
    LET base_name == t
        unique_id == UniqueId(St.counts, base_name)
        counts1 == IF unique_calls THEN (base_name :> unique_id + 1) @@ St.counts
                   ELSE St.counts
        node_name == NodeName(base_name, unique_calls, unique_id)
        G1 == TouchNode(St.dag, node_name)
        hasCaller == St.stack # <<>>
        caller == Last(St.stack)
        existing_children == Successors(G1, caller)
        arg_types_str == ArgTypesStr(t, args)
        G2 == LinkCaller(G1, caller, node_name, arg_types_str)
        G3 == LinkSibling(G2, existing_children, node_name, arg_types_str)
        G4 == IF hasCaller THEN G3 ELSE G1
        logged == IF SigOK(t) THEN LogAll([dag |-> G4, cache |-> St.cache], args, node_name)
                  ELSE [dag |-> G4, cache |-> St.cache]
        entry == [base |-> base_name, node |-> node_name,
                  caller |-> IF hasCaller THEN caller ELSE "",
                  sib |-> IF hasCaller THEN SiblingEdge(G2, existing_children, node_name)
                          ELSE <<>>,
                  by |-> by, args |-> args]
    IN [dag |-> logged.dag, cache |-> logged.cache,
        stack |-> Append(St.stack, node_name),
        counts |-> counts1,
        began |-> Append(St.began, entry),
        layers |-> Append(St.layers, [node |-> node_name, idx |-> Len(St.began) + 1,
                                      stack0 |-> St.stack])]

\* a call of target t runs its wrappers from the outermost (installed last) inwards;
\* a target without signature leaves the outermost wrapper at line 317
RECURSIVE EnterLayers(_, _, _, _, _)
EnterLayers(St, t, flags, args, by) ==
    IF flags = <<>> THEN St
    ELSE EnterLayers(EnterWrapper(St, t, Last(flags), args, by), t,
                     IF SigOK(t) THEN Front(flags) ELSE <<>>, args, Len(St.began) + 1)

\* lines 331-344 of the wrappers of one invocation, innermost first: the result is
\* logged below each wrapper's node and each wrapper pops the stack once
RECURSIVE ReturnLayers(_, _, _)
ReturnLayers(St, layers, result) ==
    IF layers = <<>> THEN St
    ELSE LET l == Last(layers)
             logged == LogAll([dag |-> St.dag, cache |-> St.cache], OutputItems(result), l.node)
             popped == Front(St.stack)
         IN ReturnLayers([dag |-> logged.dag, cache |-> logged.cache, stack |-> popped,
                          exits |-> Append(St.exits, [before |-> l.stack0, after |-> popped,
                                                      pushed |-> l.node, removed |-> Last(St.stack)])],
                         Front(layers), result)

\* lines 342-344 alone: the wrapped call raised, each wrapper pops the stack once
RECURSIVE RaiseLayers(_, _)
RaiseLayers(St, layers) ==
    IF layers = <<>> THEN St
    ELSE LET l == Last(layers)
             popped == Front(St.stack)
         IN RaiseLayers([stack |-> popped,
                         exits |-> Append(St.exits, [before |-> l.stack0, after |-> popped,
                                                      pushed |-> l.node, removed |-> Last(St.stack)])],
                        Front(layers))

NoExit == [kind |-> "none"]

EntryState == [dag |-> execution_dag, cache |-> unique_id_cache, stack |-> call_stack,
               counts |-> call_counts, began |-> hist.began, layers |-> <<>>]

\* index in hist.began of the invocation whose body is running, 0 at the top level
Running == IF frames = <<>> THEN 0 ELSE Last(Last(frames).layers).idx

CanInvoke(t) ==
    /\ budget > 0
    /\ wrappers[t] # <<>>

\* the top level or a running body calls target t; the wrappers run up to the call
\* of the original function (line 328)
Invoke(t, args) ==
    /\ CanInvoke(t)
    /\ SigOK(t)
    /\ \E St \in {EnterLayers(EntryState, t, wrappers[t], args, Running)} :
          /\ execution_dag' = St.dag
          /\ unique_id_cache' = St.cache
          /\ call_stack' = St.stack
          /\ call_counts' = St.counts
          /\ frames' = Append(frames, [fn |-> t, args |-> args, layers |-> St.layers])
          /\ hist' = [hist EXCEPT !.began = St.began]
    /\ budget' = budget - 1
    /\ UNCHANGED <<config_loaded, wrappers, fp, levels, files, threads>>

\* the same call on a target inspect.signature rejects: line 317 raises after the
\* push of line 311, outside the try/finally, and the original function never runs
InvokeNoSignature(t, args) ==
    /\ CanInvoke(t)
    /\ ~SigOK(t)
    /\ \E St \in {EnterLayers(EntryState, t, wrappers[t], args, Running)} :
          /\ execution_dag' = St.dag
          /\ unique_id_cache' = St.cache
          /\ call_stack' = St.stack
          /\ call_counts' = St.counts
          /\ hist' = [hist EXCEPT
                         !.began = St.began,
                         !.lastExit = [kind |-> "wrapper_error", fn |-> t, executed |-> 0,
                                       delivered |-> "ValueError", actual |-> "not run",
                                       exits |-> <<[before |-> call_stack,
                                                    after |-> St.stack]>>]]
    /\ budget' = budget - 1
    /\ UNCHANGED <<config_loaded, wrappers, frames, fp, levels, files, threads>>

\* the running body returns `result`: lines 331-344 of each of its wrappers
Return(result) ==
    /\ frames # <<>>
    /\ \E top \in {Last(frames)} :
       \E St \in {ReturnLayers([dag |-> execution_dag, cache |-> unique_id_cache,
                               stack |-> call_stack, exits |-> <<>>], top.layers, result)} :
          /\ result \in ResultChoices(top.fn)
          /\ execution_dag' = St.dag
          /\ unique_id_cache' = St.cache
          /\ call_stack' = St.stack
          /\ hist' = [hist EXCEPT !.lastExit =
                         [kind |-> "return", fn |-> top.fn, executed |-> 1,
                          delivered |-> result, actual |-> result, exits |-> St.exits,
                          nodes |-> [j \in 1..Len(top.layers) |-> top.layers[j].node]]]
    /\ frames' = Front(frames)
    /\ UNCHANGED <<call_counts, config_loaded, wrappers, budget, fp, levels, files, threads>>

\* the running body raises (its own error, or one a callee raised): line 342-344
Raise ==
    /\ frames # <<>>
    /\ LET top == Last(frames)
           St == RaiseLayers([stack |-> call_stack, exits |-> <<>>], top.layers)
       IN /\ call_stack' = St.stack
          /\ hist' = [hist EXCEPT !.lastExit =
                         [kind |-> "raise", fn |-> top.fn, executed |-> 1,
                          delivered |-> "error", actual |-> "error", exits |-> St.exits]]
    /\ frames' = Front(frames)
    /\ UNCHANGED <<execution_dag, unique_id_cache, call_counts, config_loaded, wrappers,
                   budget, fp, levels, files, threads>>

(***************************************************************************)
(* Spec: one run after a completed load that wrapped every target once,    *)
(* in either mode.                                                         *)
(***************************************************************************)
Init ==
    /\ execution_dag = EmptyDag
    /\ call_stack = <<>>
    /\ call_counts = <<>>
    /\ unique_id_cache = <<>>
    /\ config_loaded = TRUE
    /\ \E unique_calls \in BOOLEAN : wrappers = [t \in Targets |-> <<unique_calls>>]
    /\ frames = <<>>
    /\ budget = MaxCalls
    /\ hist = [began |-> <<>>, lastExit |-> NoExit, loads |-> 0, lastLoad |-> "none", loadSaw |-> <<>>]
    /\ fp = <<>>
    /\ levels = NoLevels
    /\ threads = NoThreads
    /\ files = NoFiles

Next ==
    \/ \E t \in Targets : \E args \in ArgChoices(t) : Invoke(t, args)
    \/ \E t \in Targets : \E args \in ArgChoices(t) : InvokeNoSignature(t, args)
    \/ \E t \in Targets : \E result \in ResultChoices(t) : Return(result)
    \/ Raise

Spec == Init /\ [][Next]_vars

(***************************************************************************)
(* SpecChain: a longer run of the inspectable targets in which no call     *)
(* raises (callers and their successive children).                        *)
(***************************************************************************)
InitChain ==
    /\ execution_dag = EmptyDag
    /\ call_stack = <<>>
    /\ call_counts = <<>>
    /\ unique_id_cache = <<>>
    /\ config_loaded = TRUE
    /\ \E unique_calls \in BOOLEAN :
          wrappers = [t \in Targets |-> IF SigOK(t) THEN <<unique_calls>> ELSE <<>>]
    /\ frames = <<>>
    /\ budget = MaxChainCalls
    /\ hist = [began |-> <<>>, lastExit |-> NoExit, loads |-> 0, lastLoad |-> "none", loadSaw |-> <<>>]
    /\ fp = <<>>
    /\ levels = NoLevels
    /\ threads = NoThreads
    /\ files = NoFiles

NextChain ==
    \/ \E t \in Targets : \E args \in ArgChoices(t) : Invoke(t, args)
    \/ \E t \in Targets : \E result \in ResultChoices(t) : Return(result)

SpecChain == InitChain /\ [][NextChain]_vars

(***************************************************************************)
(* Observations on the run                                                 *)
(***************************************************************************)
\* call nodes carry a count, value nodes a type and an id
CallNodes == {n \in DOMAIN execution_dag.attr : "count" \in DOMAIN execution_dag.attr[n]}

IsSiblingEdge(e) ==
    /\ e \in DOMAIN execution_dag.eattr
    /\ "relationship" \in DOMAIN execution_dag.eattr[e]
    /\ execution_dag.eattr[e].relationship = "sibling"

SiblingEdges == {e \in DOMAIN execution_dag.eattr : IsSiblingEdge(e)}

\* the wrapper invocations of base name t so far, as indices of hist.began
EntriesOf(t) == {i \in 1..Len(hist.began) : hist.began[i].base = t}

Entered(t) == Cardinality(EntriesOf(t))

\* the invocations in which callee was entered while caller was the top of call_stack
CallsFrom(caller, callee) ==
    Cardinality({i \in 1..Len(hist.began) :
                    hist.began[i].caller = caller /\ hist.began[i].node = callee})

\* the invocations made by invocation p, in the order they began
RECURSIVE ChildrenFrom(_, _)
ChildrenFrom(p, i) ==
    IF i > Len(hist.began) THEN <<>>
    ELSE IF hist.began[i].by = p THEN <<i>> \o ChildrenFrom(p, i + 1)
    ELSE ChildrenFrom(p, i + 1)

Children(p) == ChildrenFrom(p, 1)

UniqueMode == \A t \in Targets : \A i \in 1..Len(wrappers[t]) : wrappers[t][i]
NonUniqueMode == \A t \in Targets : \A i \in 1..Len(wrappers[t]) : ~wrappers[t][i]

(***************************************************************************)
(* C1: when the wrapped call raises, the Call Stack after the wrapper      *)
(* exits equals the Call Stack before the wrapper was entered, at every    *)
(* nesting depth.                                                          *)
(***************************************************************************)
C1_StackRestoredOnRaise ==
    hist.lastExit.kind = "raise" =>
        \A i \in 1..Len(hist.lastExit.exits) :
            hist.lastExit.exits[i].after = hist.lastExit.exits[i].before

(***************************************************************************)
(* C2: the wrapper is transparent: every invocation executes the wrapped   *)
(* function exactly once and hands on exactly its result or its error.     *)
(***************************************************************************)
C2_Transparent ==
    hist.lastExit.kind # "none" =>
        /\ hist.lastExit.executed = 1
        /\ hist.lastExit.delivered = hist.lastExit.actual

(***************************************************************************)
(* C3: after n invocations of f, non-unique mode has exactly one call node *)
(* f, with count n; unique mode has the n call nodes f_0 .. f_(n-1), each  *)
(* with count 1, numbered in the order the invocations began.              *)
(***************************************************************************)
C3_InvocationCounting ==
    /\ NonUniqueMode =>
          /\ CallNodes = {t \in Targets : Entered(t) > 0}
          /\ \A t \in CallNodes : execution_dag.attr[t].count = Entered(t)
    /\ UniqueMode =>
          /\ CallNodes = {hist.began[i].node : i \in 1..Len(hist.began)}
          /\ Cardinality(CallNodes) = Len(hist.began)
          /\ \A n \in CallNodes : execution_dag.attr[n].count = 1
          /\ \A t \in Targets : \A i \in EntriesOf(t) :
                hist.began[i].node =
                    t \o "_" \o ToString(Cardinality({j \in EntriesOf(t) : j < i}))

C3_Witness ==
    /\ NonUniqueMode
    /\ Entered("f") = 3
    /\ execution_dag.attr["f"].count = 3

(***************************************************************************)
(* C4: for every pair of call nodes, the weight of the call edge           *)
(* caller -> callee is the number of invocations in which callee was       *)
(* entered while caller was the top of the Call Stack, and there is no     *)
(* such edge when that number is zero.                                     *)
(***************************************************************************)
IsCallEdge(e) == e \in DOMAIN execution_dag.eattr /\ ~IsSiblingEdge(e)

C4_CallEdgeWeight ==
    \A caller \in CallNodes : \A callee \in CallNodes :
        IF CallsFrom(caller, callee) = 0
        THEN ~IsCallEdge(<<caller, callee>>)
        ELSE /\ IsCallEdge(<<caller, callee>>)
             /\ execution_dag.eattr[<<caller, callee>>].weight = CallsFrom(caller, callee)

(***************************************************************************)
(* C5: when one invocation calls three distinct children c1, c2, c3 in     *)
(* that order, the sibling edges created by those calls are exactly        *)
(* c1 -> c2 and c2 -> c3, there is no sibling edge c1 -> c3, and no other  *)
(* sibling edge points to c1, c2 or c3.                                    *)
(***************************************************************************)
C5_SiblingChain ==
    \A p \in 1..Len(hist.began) :
        LET kids == Children(p)
            c1 == hist.began[kids[1]].node
            c2 == hist.began[kids[2]].node
            c3 == hist.began[kids[3]].node
            chain == {<<c1, c2>>, <<c2, c3>>}
        IN (Len(kids) = 3 /\ Cardinality({c1, c2, c3}) = 3) =>
              /\ {hist.began[kids[i]].sib : i \in 1..3} \ {<<>>} = chain
              /\ ~IsSiblingEdge(<<c1, c3>>)
              /\ \A e \in SiblingEdges : e[2] \in {c1, c2, c3} => e \in chain

(***************************************************************************)
(* SpecFingerprint: get_unique_id applied, in one run with an empty cache, *)
(* to two live values v1 and v2 drawn from bounded sets of tensors and     *)
(* dicts.                                                                  *)
(***************************************************************************)
IdleTracer ==
    /\ execution_dag = EmptyDag
    /\ call_stack = <<>>
    /\ call_counts = <<>>
    /\ unique_id_cache = <<>>
    /\ config_loaded = FALSE
    /\ wrappers = [t \in Targets |-> <<>>]
    /\ frames = <<>>
    /\ budget = 0
    /\ hist = [began |-> <<>>, lastExit |-> NoExit, loads |-> 0, lastLoad |-> "none", loadSaw |-> <<>>]
    /\ levels = NoLevels
    /\ threads = NoThreads
    /\ files = NoFiles

TensorData == UNION {[1..n -> 0..MaxElem] : n \in 0..MaxTensorLen}

ShapesOf(n) == {<<n>>, <<1, n>>, <<n, 1>>}

TensorsAt(oid) ==
    UNION {{[k |-> "Tensor", oid |-> oid, dtype |-> d, data |-> x, shape |-> sh] :
               d \in {"float", "int"}, sh \in ShapesOf(Len(x))} : x \in TensorData}

IntKey(n) == [k |-> "int", n |-> n, s |-> ""]
StrKey(s) == [k |-> "str", n |-> 0, s |-> s]

DictKeys == {IntKey(1), IntKey(2), StrKey("a"), StrKey("b")}

\* small ints are shared objects: equal ints have the same id
SmallInt(v) == [k |-> "int", oid |-> 100 + v, v |-> v]

DictItemSeqs ==
    {its \in UNION {[1..n -> DictKeys \X {SmallInt(1), SmallInt(2)}] : n \in 0..MaxDictLen} :
        \A i, j \in 1..Len(its) : i # j => its[i][1] # its[j][1]}

DictsAt(oid) == {[k |-> "dict", oid |-> oid, items |-> its] : its \in DictItemSeqs}

FpValues(oid) == TensorsAt(oid) \cup DictsAt(oid)

InitFingerprint ==
    /\ IdleTracer
    /\ \E v1 \in FpValues(1) : \E v2 \in FpValues(2) :
          fp = [pc |-> "start", v1 |-> v1, v2 |-> v2, r1 |-> <<>>, r2 |-> <<>>]

FingerprintPair ==
    /\ fp.pc = "start"
    /\ LET a == GetUniqueId(fp.v1, unique_id_cache)
           b == GetUniqueId(fp.v2, a.cache)
       IN /\ fp' = [fp EXCEPT !.pc = "done",
                              !.r1 = [h |-> a.h, raised |-> a.raised],
                              !.r2 = [h |-> b.h, raised |-> b.raised]]
          /\ unique_id_cache' = b.cache
    /\ UNCHANGED <<execution_dag, call_stack, call_counts, config_loaded, wrappers, frames,
                   budget, hist, levels, files, threads>>

NextFingerprint == FingerprintPair

SpecFingerprint == InitFingerprint /\ [][NextFingerprint]_vars

\* the (key, value) entries of a dict by content
EntrySet(d) == {<<KeyRepr(d.items[i][1]), Repr(d.items[i][2])>> : i \in 1..Len(d.items)}

(***************************************************************************)
(* C6: fingerprinting a zero-length tensor fails with the designated       *)
(* error and returns no fingerprint.                                       *)
(***************************************************************************)
C6_EmptyTensorRejected ==
    (fp.pc = "done" /\ IsTensor(fp.v1) /\ Len(fp.v1.data) = 0) => fp.r1.raised

(***************************************************************************)
(* C8: two non-empty tensors whose contents differ (elements, element      *)
(* order or shape) get different fingerprints.                             *)
(***************************************************************************)
C8_TensorSensitivity ==
    ( /\ fp.pc = "done"
      /\ IsTensor(fp.v1) /\ IsTensor(fp.v2)
      /\ Len(fp.v1.data) > 0 /\ Len(fp.v2.data) > 0
      /\ <<fp.v1.data, fp.v1.shape>> # <<fp.v2.data, fp.v2.shape>> )
    => fp.r1.h # fp.r2.h

(***************************************************************************)
(* C9: two dicts holding the same entries, inserted in different orders,   *)
(* get the same fingerprint, whatever the types of the keys.               *)
(***************************************************************************)
C9_DictOrderIndependent ==
    ( /\ fp.pc = "done"
      /\ fp.v1.k = "dict" /\ fp.v2.k = "dict"
      /\ EntrySet(fp.v1) = EntrySet(fp.v2) )
    => fp.r1.h = fp.r2.h

(***************************************************************************)
(* SpecCache: objects are created at an address, changed in place,         *)
(* released (their address becomes free for the next object) and           *)
(* fingerprinted, in any order, within one run.                            *)
(***************************************************************************)
CacheContents == {<<1>>, <<2>>, <<1, 2>>}

\* the list object at address o holding the ints of c
ListObj(o, c) == [k |-> "list", oid |-> o, items |-> [i \in 1..Len(c) |-> SmallInt(c[i])]]

NoCall == [content |-> <<>>, h |-> <<>>, fresh |-> <<>>]

InitCache ==
    /\ IdleTracer
    /\ fp = [heap |-> <<>>, prev |-> NoCall, last |-> NoCall]

Alloc(o, c) ==
    /\ o \notin DOMAIN fp.heap
    /\ fp' = [fp EXCEPT !.heap = (o :> c) @@ fp.heap]
    /\ UNCHANGED <<execution_dag, call_stack, call_counts, unique_id_cache, config_loaded,
                   wrappers, frames, budget, hist, levels, files, threads>>

\* lst.append(..), lst[i] = .., del lst[i]: same object, new content
MutateInPlace(o, c) ==
    /\ o \in DOMAIN fp.heap
    /\ c # fp.heap[o]
    /\ fp' = [fp EXCEPT !.heap = [x \in DOMAIN fp.heap |-> IF x = o THEN c ELSE fp.heap[x]]]
    /\ UNCHANGED <<execution_dag, call_stack, call_counts, unique_id_cache, config_loaded,
                   wrappers, frames, budget, hist, levels, files, threads>>

\* the last reference goes away; nothing removes the cache entry of the address
Release(o) ==
    /\ o \in DOMAIN fp.heap
    /\ fp' = [fp EXCEPT !.heap = [x \in DOMAIN fp.heap \ {o} |-> fp.heap[x]]]
    /\ UNCHANGED <<execution_dag, call_stack, call_counts, unique_id_cache, config_loaded,
                   wrappers, frames, budget, hist, levels, files, threads>>

Fingerprint(o) ==
    /\ o \in DOMAIN fp.heap
    /\ LET obj == ListObj(o, fp.heap[o])
           r == GetUniqueId(obj, unique_id_cache)
       IN /\ unique_id_cache' = r.cache
          /\ fp' = [fp EXCEPT !.prev = fp.last,
                              !.last = [content |-> fp.heap[o], h |-> r.h,
                                        fresh |-> GetUniqueId(obj, <<>>).h]]
    /\ UNCHANGED <<execution_dag, call_stack, call_counts, config_loaded, wrappers, frames,
                   budget, hist, levels, files, threads>>

NextCache ==
    \/ \E o \in 1..MaxObjs : \E c \in CacheContents : Alloc(o, c)
    \/ \E o \in 1..MaxObjs : \E c \in CacheContents : MutateInPlace(o, c)
    \/ \E o \in 1..MaxObjs : Release(o)
    \/ \E o \in 1..MaxObjs : Fingerprint(o)

SpecCache == InitCache /\ [][NextCache]_vars

(***************************************************************************)
(* C7: the fingerprint depends on the current content only: every result   *)
(* is the one an empty cache would give, and two values with the same      *)
(* content get the same fingerprint.                                       *)
(***************************************************************************)
C7_ContentOnly ==
    /\ fp.last # NoCall => fp.last.h = fp.last.fresh
    /\ (fp.last # NoCall /\ fp.prev # NoCall /\ fp.last.content = fp.prev.content)
          => fp.last.h = fp.prev.h

(***************************************************************************)
(* load_trace_config, lines 352-406.  A configuration source is "missing"  *)
(* (open or json.load raises) or the list of its entries; an entry is a    *)
(* target, "bad" (resolution raises ImportError, AttributeError or         *)
(* ValueError, which line 402 catches) or "fatal" (it raises something     *)
(* else: the TypeError of import_module on a path such as ".a.b.c", any    *)
(* other error of the imported module, the TypeError of setattr on a       *)
(* builtin type).                                                          *)
(***************************************************************************)
ConfigLists ==
    { <<>>, <<"f">>, <<"u">>, <<"f", "g">>, <<"h", "h">>,
      <<"g", "bad", "h">>, <<"g", "fatal", "h">> }

\* a loader that never looks at the flag
AlreadyLoadedNever(flag) == FALSE

\* lines 355-357
AlreadyLoaded(flag) == flag

\* lines 371-403 on W = the wrappers installed so far: [wrappers, ok]
RECURSIVE ApplyConfig(_, _, _)
ApplyConfig(W, entries, unique_calls) ==
    IF entries = <<>> THEN [wrappers |-> W, ok |-> TRUE]
    ELSE IF entries[1] = "fatal" THEN [wrappers |-> W, ok |-> FALSE]
    ELSE IF entries[1] = "bad" THEN ApplyConfig(W, Tail(entries), unique_calls)
    ELSE ApplyConfig([W EXCEPT ![entries[1]] = Append(@, unique_calls)],
                     Tail(entries), unique_calls)

CanLoad ==
    /\ frames = <<>>
    /\ hist.loads < MaxLoads

\* a call once the flag is set: line 357 returns
LoadAgain ==
    /\ CanLoad
    /\ AlreadyLoaded(config_loaded)
    /\ hist' = [hist EXCEPT !.loads = @ + 1, !.lastLoad = "noop",
                            !.loadSaw = <<execution_dag, call_stack>>]
    /\ UNCHANGED <<execution_dag, call_stack, call_counts, unique_id_cache, config_loaded,
                   wrappers, frames, budget, fp, levels, files, threads>>

\* lines 360-365 with a source that cannot be opened or parsed
LoadMissing ==
    /\ CanLoad
    /\ ~AlreadyLoaded(config_loaded)
    /\ execution_dag' = EmptyDag
    /\ call_counts' = <<>>
    /\ call_stack' = <<>>
    /\ hist' = [hist EXCEPT !.loads = @ + 1, !.lastLoad = "failed",
                            !.loadSaw = <<execution_dag, call_stack>>]
    /\ UNCHANGED <<unique_id_cache, config_loaded, wrappers, frames, budget, fp, levels, files,
                   threads>>

\* lines 360-406 with a source that parses
LoadConfig(entries, unique_calls) ==
    /\ CanLoad
    /\ ~AlreadyLoaded(config_loaded)
    /\ execution_dag' = EmptyDag
    /\ call_counts' = <<>>
    /\ call_stack' = <<>>
    /\ LET r == ApplyConfig(wrappers, entries, unique_calls)
       IN /\ wrappers' = r.wrappers
          /\ config_loaded' = r.ok
          /\ hist' = [hist EXCEPT !.loads = @ + 1,
                                  !.lastLoad = IF r.ok THEN "loaded" ELSE "failed",
                                  !.loadSaw = <<execution_dag, call_stack>>]
    /\ UNCHANGED <<unique_id_cache, frames, budget, fp, levels, files, threads>>

(***************************************************************************)
(* SpecLoad: a process from its start: loads at the top level, and calls   *)
(* of whatever targets are wrapped.                                        *)
(***************************************************************************)
InitLoad ==
    /\ execution_dag = EmptyDag
    /\ call_stack = <<>>
    /\ call_counts = <<>>
    /\ unique_id_cache = <<>>
    /\ config_loaded = FALSE
    /\ wrappers = [t \in Targets |-> <<>>]
    /\ frames = <<>>
    /\ budget = MaxLoadCalls
    /\ hist = [began |-> <<>>, lastExit |-> NoExit, loads |-> 0, lastLoad |-> "none", loadSaw |-> <<>>]
    /\ fp = <<>>
    /\ levels = NoLevels
    /\ threads = NoThreads
    /\ files = NoFiles

NextLoad ==
    \/ LoadAgain
    \/ LoadMissing
    \/ \E entries \in ConfigLists : \E unique_calls \in BOOLEAN :
          LoadConfig(entries, unique_calls)
    \/ \E t \in Targets : \E args \in ArgChoices(t) : Invoke(t, args)
    \/ \E t \in Targets : \E args \in ArgChoices(t) : InvokeNoSignature(t, args)
    \/ \E t \in Targets : \E result \in ResultChoices(t) : Return(result)
    \/ Raise

SpecLoad == InitLoad /\ [][NextLoad]_vars

LoadStep == hist'.loads = hist.loads + 1

LoadIsNoOp == UNCHANGED <<execution_dag, call_stack, call_counts, wrappers>>

(***************************************************************************)
(* C10 as stated: once load_trace_config has been called, every further    *)
(* call leaves the graph, the Call Stack, the sequence counters and the    *)
(* wrapped targets as they were.                                           *)
(***************************************************************************)
C10_NoOpAfterAnyCall == [][(hist.loads > 0 /\ LoadStep) => LoadIsNoOp]_vars

(***************************************************************************)
(* C10 amended: once a call of load_trace_config has completed (the flag   *)
(* is set), every further call leaves the graph, the Call Stack, the       *)
(* sequence counters, the wrapped targets and the flag as they were.       *)
(***************************************************************************)
C10_NoOpAfterCompletedLoad ==
    [][(config_loaded /\ LoadStep) => (LoadIsNoOp /\ UNCHANGED config_loaded)]_vars

\* a call made after a completed load, when the graph and the Call Stack held something
C10_Witness ==
    /\ hist.lastLoad = "noop"
    /\ hist.loadSaw[1].nodes # <<>>
    /\ hist.loadSaw[2] # <<>>

\* how many entries of the configured list name target t
RECURSIVE CountIn(_, _)
CountIn(t, entries) ==
    IF entries = <<>> THEN 0
    ELSE (IF entries[1] = t THEN 1 ELSE 0) + CountIn(t, Tail(entries))

\* a list with an entry that cannot be resolved
HasFailingEntry(entries) == "bad" \in Range(entries) \/ "fatal" \in Range(entries)

(***************************************************************************)
(* C11: a load whose list holds an entry that cannot be resolved skips     *)
(* that entry, wraps every other target of the list, before and after it,  *)
(* with the wrapper of this load, and sets the flag.                       *)
(***************************************************************************)
C11_FailingTargetSkipped ==
    [][\A entries \in ConfigLists : \A unique_calls \in BOOLEAN :
          (LoadConfig(entries, unique_calls) /\ HasFailingEntry(entries)) =>
              /\ config_loaded'
              /\ \A t \in Targets :
                    wrappers'[t] = wrappers[t] \o
                                   [i \in 1..CountIn(t, entries) |-> unique_calls]]_vars

\* every call made so far has returned
AllReturned == frames = <<>>

\* the run in which the top level called f once and f called g twice, with
\* different arguments, and nothing else was called
FCallsGTwice ==
    /\ AllReturned
    /\ Len(hist.began) = 3
    /\ hist.began[1].base = "f" /\ hist.began[1].by = 0
    /\ hist.began[2].base = "g" /\ hist.began[2].by = 1
    /\ hist.began[3].base = "g" /\ hist.began[3].by = 1
    /\ hist.began[2].args # hist.began[3].args

\* the value nodes below call node n that record an argument of an invocation of n
ArgLeaves(n) ==
    {v \in Range(Successors(execution_dag, n)) :
        /\ "id" \in DOMAIN execution_dag.attr[v]
        /\ \E i \in 1..Len(hist.began) :
              /\ hist.began[i].node = n
              /\ \E k \in 1..Len(hist.began[i].args) :
                    v = n \o "." \o hist.began[i].args[k][1]}

(***************************************************************************)
(* C12: non-unique mode, f calls g twice with arrays of different content: *)
(* the graph has the call nodes f and g, the edge f -> g has weight 2, and *)
(* the two arguments of g are two leaf value nodes with distinct           *)
(* fingerprints.                                                           *)
(***************************************************************************)
C12_TwoCallsTwoLeaves ==
    (NonUniqueMode /\ FCallsGTwice) =>
        /\ CallNodes = {"f", "g"}
        /\ IsCallEdge(<<"f", "g">>)
        /\ execution_dag.eattr[<<"f", "g">>].weight = 2
        /\ Cardinality(ArgLeaves("g")) = 2
        /\ Cardinality({execution_dag.attr[v].id : v \in ArgLeaves("g")}) = 2

\* the run of C12 whether or not the two arguments differ
FCallsGTwiceAnyArgs ==
    /\ AllReturned
    /\ Len(hist.began) = 3
    /\ hist.began[1].base = "f" /\ hist.began[1].by = 0
    /\ hist.began[2].base = "g" /\ hist.began[2].by = 1
    /\ hist.began[3].base = "g" /\ hist.began[3].by = 1

(***************************************************************************)
(* C13: when f calls g twice, the final graph has exactly one sibling edge *)
(* in unique mode, from the first g call node to the second, and no        *)
(* sibling edge in non-unique mode.                                        *)
(***************************************************************************)
C13_SiblingEdgesOfTwoCalls ==
    FCallsGTwiceAnyArgs =>
        /\ UniqueMode => SiblingEdges = {<<"g_0", "g_1">>}
        /\ NonUniqueMode => SiblingEdges = {}

(***************************************************************************)
(* assign_levels(dag), lines 427-443.                                      *)
(***************************************************************************)
\* dag.in_degree(n): the edges into n, a self-loop included
InDegree(G, n) == Cardinality({e \in DOMAIN G.eattr : e[2] = n})

\* line 439 with every successor queued, whether or not it has a level
NotInLevelsAlways(lv, node, successor) == TRUE

\* line 439, `successor not in levels`, after line 436 gave `node` its level
NotInLevels(lv, node, successor) == successor # node /\ successor \notin DOMAIN lv

\* the for loop of lines 435-440 over the rest `todo` of nodes_at_current_level
RECURSIVE ScanLevel(_, _, _, _, _)
ScanLevel(G, lv, current_level, todo, next_level_nodes) ==
    IF todo = <<>> THEN [levels |-> lv, next |-> next_level_nodes]
    ELSE ScanLevel(G, (todo[1] :> current_level) @@ lv, current_level, Tail(todo),
                   next_level_nodes \o
                       SelectSeq(Successors(G, todo[1]),
                                 LAMBDA s : NotInLevels(lv, todo[1], s)))

\* the levels and the next list after the for loop
ScanResult(G, lv, current_level, nodes_at_current_level) ==
    ScanLevel(G, lv, current_level, nodes_at_current_level, <<>>)

\* the rounds of the while loop that are followed: a node is in the list of at most
\* two rounds, the one that first queues it and the next
RoundLimit(G) == 2 * Len(G.nodes) + 1

\* the while loop of lines 433-442: `returned` tells that the list became empty and
\* line 443 was reached within RoundLimit(G) rounds
RECURSIVE LevelLoop(_, _, _)
LevelLoop(G, r, current_level) ==
    IF r.next = <<>> THEN [levels |-> r.levels, rounds |-> current_level, returned |-> TRUE]
    ELSE IF current_level >= RoundLimit(G)
    THEN [levels |-> r.levels, rounds |-> current_level, returned |-> FALSE]
    ELSE LevelLoop(G, ScanResult(G, r.levels, current_level, r.next), current_level + 1)

assign_levels(G) ==
    LevelLoop(G, [levels |-> <<>>,
                  next |-> SelectSeq(G.nodes, LAMBDA n : InDegree(G, n) = 0)], 0)

(***************************************************************************)
(* SpecLevels: any directed graph of a few nodes and edges, built in any   *)
(* order of add_node and add_edge, then levelled.                          *)
(***************************************************************************)
DagNames == <<"a", "b", "c", "d", "e">>

DagNodes == {DagNames[i] : i \in 1..MaxDagNodes}

InitLevels ==
    /\ IdleTracer
    /\ fp = <<>>

DagAddNode(n) ==
    /\ ~HasNode(execution_dag, n)
    /\ execution_dag' = AddNode(execution_dag, n, <<>>)
    /\ levels' = NoLevels
    /\ UNCHANGED <<call_stack, call_counts, unique_id_cache, config_loaded, wrappers,
                   frames, budget, hist, fp, files, threads>>

DagAddEdge(u, v) ==
    /\ ~HasEdge(execution_dag, u, v)
    /\ Cardinality(DOMAIN execution_dag.eattr) < MaxDagEdges
    /\ execution_dag' = AddEdge(execution_dag, u, v, <<>>)
    /\ levels' = NoLevels
    /\ UNCHANGED <<call_stack, call_counts, unique_id_cache, config_loaded, wrappers,
                   frames, budget, hist, fp, files, threads>>

AssignLevels ==
    /\ ~levels.done
    /\ \E r \in {assign_levels(execution_dag)} :
          levels' = [done |-> TRUE, levels |-> r.levels, rounds |-> r.rounds,
                     returned |-> r.returned]
    /\ UNCHANGED <<execution_dag, call_stack, call_counts, unique_id_cache, config_loaded,
                   wrappers, frames, budget, hist, fp, files, threads>>

NextLevels ==
    \/ \E n \in DagNodes : DagAddNode(n)
    \/ \E u \in DagNodes : \E v \in DagNodes : DagAddEdge(u, v)
    \/ AssignLevels

SpecLevels == InitLevels /\ [][NextLevels]_vars

\* no directed cycle among the nodes of S, self-loops included
RECURSIVE AcyclicOn(_, _)
AcyclicOn(G, S) ==
    IF S = {} THEN TRUE
    ELSE IF \A n \in S : \E m \in Range(G.succ[n]) : m \in S THEN FALSE
    ELSE AcyclicOn(G, {n \in S : \E m \in Range(G.succ[n]) : m \in S})

Acyclic(G) == AcyclicOn(G, DOMAIN G.attr)

(***************************************************************************)
(* C14: on an acyclic graph assign_levels returns a topological layering:  *)
(* level(u) < level(v) for every edge u -> v, in whatever order the nodes  *)
(* and the successors are enumerated.                                      *)
(***************************************************************************)
C14_TopologicalLayering ==
    (levels.done /\ Acyclic(execution_dag)) =>
        \A e \in DOMAIN execution_dag.eattr :
            /\ e[1] \in DOMAIN levels.levels
            /\ e[2] \in DOMAIN levels.levels
            /\ levels.levels[e[1]] < levels.levels[e[2]]

\* invocation j was made by an invocation of the same function
IsRecursiveCall(j) ==
    /\ hist.began[j].by > 0
    /\ hist.began[hist.began[j].by].base = hist.began[j].base

\* invocations j and k are two calls of one function made by the same invocation
IsRepeatedCall(j, k) ==
    /\ j < k
    /\ hist.began[j].by > 0
    /\ hist.began[j].by = hist.began[k].by
    /\ hist.began[j].base = hist.began[k].base

(***************************************************************************)
(* C15: in unique mode the graph, with its call, sibling and value edges,  *)
(* has no directed cycle and no self-loop, whatever nested, repeated and   *)
(* self-recursive calls were made.                                         *)
(***************************************************************************)
C15_UniqueModeAcyclic == UniqueMode => Acyclic(execution_dag)

\* a unique-mode run with a self-recursive call, a repeated call and a sibling edge
C15_Witness ==
    /\ UniqueMode
    /\ AllReturned
    /\ \E j \in 1..Len(hist.began) : IsRecursiveCall(j)
    /\ \E j \in 1..Len(hist.began) : \E k \in 1..Len(hist.began) : IsRepeatedCall(j, k)
    /\ SiblingEdges # {}

(***************************************************************************)
(* save_dag and plot_dag, lines 474-557.  A file name is [stem, ext] as    *)
(* os.path.splitext splits it; files.fs maps the paths that exist to what  *)
(* they hold.  The graphviz package is taken to be importable (line 490);  *)
(* whether its render succeeds is open.                                    *)
(***************************************************************************)
FileNames == {[stem |-> "execution_dag", ext |-> e] : e \in {"", ".pkl", ".png", ".PNG"}}

Path(filename) == filename.stem \o filename.ext

\* ext.lower()
Lower(ext) == IF ext = ".PNG" THEN ".png" ELSE ext

\* lines 500-502
BasePath(filename) ==
    IF Lower(filename.ext) # ".png" THEN Path(filename) ELSE filename.stem

\* line 504
PngPath(filename) == BasePath(filename) \o ".png"

\* os.path.exists
Exists(fs, path) == path \in DOMAIN fs

\* a plot_dag that never looks whether the picture is there
AlreadyPlottedNever(fs, png_path) == FALSE

\* line 505
AlreadyPlotted(fs, png_path) == Exists(fs, png_path)

WriteFile(fs, path, content) == [p \in DOMAIN fs \cup {path} |-> IF p = path THEN content ELSE fs[p]]

RemoveFile(fs, path) == [p \in DOMAIN fs \ {path} |-> fs[p]]

\* Digraph.render(base_path, format="png", cleanup=True): the source is written to
\* base_path; then the picture is written and the source removed, or dot fails and
\* line 556 catches the error
Render(fs, base_path, dag, ok) ==
    IF ok THEN RemoveFile(WriteFile(fs, base_path \o ".png", <<"png", dag>>), base_path)
    ELSE WriteFile(fs, base_path, <<"gv", dag>>)

CanUseFiles == files.ops < MaxFileOps

\* the paths the file names stand for, and the files other programs may have left there
Paths == {Path(filename) : filename \in FileNames} \cup {PngPath(filename) : filename \in FileNames}

ForeignFiles(present) == [p \in present |-> <<"foreign">>]

\* save_dag that empties the graph once it is pickled
save_dag_clearing(filename) ==
    /\ CanUseFiles
    /\ files' = [files EXCEPT
                    !.fs = WriteFile(@, Path(filename), <<"pickle", execution_dag>>),
                    !.ops = @ + 1,
                    !.saved = [done |-> TRUE, target |-> Path(filename),
                               existed |-> Exists(files.fs, Path(filename)),
                               dag |-> execution_dag, before |-> files.fs,
                               after |-> WriteFile(files.fs, Path(filename),
                                                   <<"pickle", execution_dag>>),
                               raised |-> FALSE]]
    /\ execution_dag' = EmptyDag
    /\ UNCHANGED <<call_stack, call_counts, unique_id_cache, config_loaded,
                   wrappers, frames, budget, hist, fp, levels, threads>>

\* lines 474-480
save_dag(filename) ==
    /\ CanUseFiles
    /\ files' = [files EXCEPT
                    !.fs = WriteFile(@, Path(filename), <<"pickle", execution_dag>>),
                    !.ops = @ + 1,
                    !.saved = [done |-> TRUE, target |-> Path(filename),
                               existed |-> Exists(files.fs, Path(filename)),
                               dag |-> execution_dag, before |-> files.fs,
                               after |-> WriteFile(files.fs, Path(filename),
                                                   <<"pickle", execution_dag>>),
                               raised |-> FALSE]]
    /\ UNCHANGED <<execution_dag, call_stack, call_counts, unique_id_cache, config_loaded,
                   wrappers, frames, budget, hist, fp, levels, threads>>

\* lines 495-507: the two early returns of plot_dag
PlotSkips(filename) ==
    \/ execution_dag.nodes = <<>>
    \/ AlreadyPlotted(files.fs, PngPath(filename))

\* lines 482-557
plot_dag(filename, ok) ==
    /\ CanUseFiles
    /\ \E after \in {IF PlotSkips(filename) THEN files.fs
                     ELSE Render(files.fs, BasePath(filename), execution_dag, ok)} :
          files' = [files EXCEPT
                       !.fs = after,
                       !.ops = @ + 1,
                       !.plotted = [done |-> TRUE, target |-> PngPath(filename),
                                    existed |-> Exists(files.fs, PngPath(filename)),
                                    empty |-> execution_dag.nodes = <<>>,
                                    rendered |-> ~PlotSkips(filename),
                                    dag |-> execution_dag, before |-> files.fs,
                                    after |-> after, raised |-> FALSE]]
    /\ UNCHANGED <<execution_dag, call_stack, call_counts, unique_id_cache, config_loaded,
                   wrappers, frames, budget, hist, fp, levels, threads>>

(***************************************************************************)
(* SpecPersist: a short traced run with saves and plots at any point, on a *)
(* file system that may hold files already.                               *)
(***************************************************************************)
InitPersist ==
    /\ execution_dag = EmptyDag
    /\ call_stack = <<>>
    /\ call_counts = <<>>
    /\ unique_id_cache = <<>>
    /\ config_loaded = TRUE
    /\ wrappers = [t \in Targets |-> IF t = "f" THEN <<FALSE>> ELSE <<>>]
    /\ frames = <<>>
    /\ budget = MaxPersistCalls
    /\ hist = [began |-> <<>>, lastExit |-> NoExit, loads |-> 0, lastLoad |-> "none", loadSaw |-> <<>>]
    /\ fp = <<>>
    /\ levels = NoLevels
    /\ threads = NoThreads
    /\ \E present \in SUBSET Paths : files = [NoFiles EXCEPT !.fs = ForeignFiles(present)]

NextPersist ==
    \/ \E t \in Targets : \E args \in ArgChoices(t) : Invoke(t, args)
    \/ \E t \in Targets : \E result \in ResultChoices(t) : Return(result)
    \/ \E filename \in FileNames : save_dag(filename)
    \/ \E filename \in FileNames : \E ok \in BOOLEAN : plot_dag(filename, ok)

SpecPersist == InitPersist /\ [][NextPersist]_vars

(***************************************************************************)
(* C16: when its target exists, save_dag overwrites it with the current    *)
(* graph and completes without error; plot_dag renders nothing and leaves  *)
(* every file as it was when the picture exists or the graph has no nodes. *)
(***************************************************************************)
C16_PersistenceConflict ==
    /\ (files.saved.done /\ files.saved.existed) =>
          /\ ~files.saved.raised
          /\ files.saved.after[files.saved.target] = <<"pickle", files.saved.dag>>
          /\ \A p \in DOMAIN files.saved.before \ {files.saved.target} :
                Exists(files.saved.after, p) /\ files.saved.after[p] = files.saved.before[p]
    /\ (files.plotted.done /\ (files.plotted.existed \/ files.plotted.empty)) =>
          /\ ~files.plotted.raised
          /\ ~files.plotted.rendered
          /\ files.plotted.after = files.plotted.before

\* a save that replaced other content of its target, and a plot of a graph with nodes
\* whose picture was there already
C16_Witness ==
    /\ files.saved.done /\ files.saved.existed
    /\ files.saved.before[files.saved.target] # files.saved.after[files.saved.target]
    /\ files.plotted.done /\ files.plotted.existed /\ ~files.plotted.empty

(***************************************************************************)
(* C17: every push of the wrapper is matched by a pop before the wrapper   *)
(* exits, on every exit path after the push: return, an error of the       *)
(* wrapped call, an error of the wrapper's own signature inspection,       *)
(* argument binding or value logging.  So each wrapper leaves the Call     *)
(* Stack as long as it found it.                                           *)
(***************************************************************************)
C17_PushMatchedByPop ==
    hist.lastExit.kind # "none" =>
        \A i \in 1..Len(hist.lastExit.exits) :
            Len(hist.lastExit.exits[i].after) = Len(hist.lastExit.exits[i].before)

\* the successors of call node c that are value nodes
ValueLeaves(c) ==
    {v \in Range(Successors(execution_dag, c)) : v \notin CallNodes}

\* the invocation made under caller node c that began last before invocation i, 0 if none
PrevChild(i) ==
    LET earlier == {j \in 1..(i - 1) : hist.began[j].caller = hist.began[i].caller}
    IN IF earlier = {} THEN 0 ELSE CHOOSE j \in earlier : \A k \in earlier : k <= j

(***************************************************************************)
(* C18: when entering n under caller c creates the sibling edge p -> n,    *)
(* p is the child of c whose invocation began most recently before n,      *)
(* also when c has called some child more than once; for a caller below    *)
(* which no value node (no argument value in particular) was logged.       *)
(***************************************************************************)
C18_SiblingFromMostRecentChild ==
    \A i \in 1..Len(hist.began) :
        (hist.began[i].sib # <<>> /\ ValueLeaves(hist.began[i].caller) = {}) =>
            /\ PrevChild(i) # 0
            /\ hist.began[i].sib[1] = hist.began[PrevChild(i)].node

(***************************************************************************)
(* C19: every edge with relationship = sibling has weight exactly 1, and   *)
(* nothing later, a direct call from its source to its target included,    *)
(* changes that weight.                                                    *)
(***************************************************************************)
C19_SiblingWeightOne ==
    \A e \in SiblingEdges : execution_dag.eattr[e].weight = 1

\* the sibling edges the invocations made under caller node c created between children
SiblingsUnder(c) ==
    {hist.began[i].sib : i \in {j \in 1..Len(hist.began) :
                                   /\ hist.began[j].caller = c
                                   /\ hist.began[j].sib # <<>>
                                   /\ hist.began[j].sib[1] \in CallNodes}}

\* no directed cycle in the set E of edges
RECURSIVE EdgesAcyclic(_)
EdgesAcyclic(E) ==
    IF E = {} THEN TRUE
    ELSE IF \A e \in E : \E d \in E : d[1] = e[2] THEN FALSE
    ELSE EdgesAcyclic({e \in E : \E d \in E : d[1] = e[2]})

(***************************************************************************)
(* C20: in either mode the sibling edges among the children of one caller  *)
(* form a simple chain: every child has at most one outgoing and at most   *)
(* one incoming sibling edge, the edges have no cycle and no self-loop,    *)
(* and one intercepted call adds at most one sibling edge.                 *)
(***************************************************************************)
C20_SiblingSimpleChain ==
    \A c \in CallNodes :
        /\ \A e \in SiblingsUnder(c) : \A d \in SiblingsUnder(c) :
              /\ (e[1] = d[1] => e = d)
              /\ (e[2] = d[2] => e = d)
        /\ \A e \in SiblingsUnder(c) : e[1] # e[2]
        /\ EdgesAcyclic(SiblingsUnder(c))

(***************************************************************************)
(* Value logging and the attributes display_dag_info reads.                *)
(***************************************************************************)
\* the leaf values log_shape_info reaches in obj: obj itself, or the leaves of its entries
RECURSIVE LeavesOf(_)
LeavesOf(obj) ==
    IF IsContainer(obj)
    THEN UNION {LeavesOf(Entries(obj)[i][2]) : i \in 1..Len(obj.items)}
    ELSE {obj}

\* node v is a value node describing `leaf`: its type name and its fingerprint
DescribesLeaf(v, leaf) ==
    /\ HasNode(execution_dag, v)
    /\ DOMAIN execution_dag.attr[v] = {"type", "id"}
    /\ execution_dag.attr[v].type = leaf.k
    /\ execution_dag.attr[v].id = GetUniqueId(leaf, <<>>).h

\* every leaf of `obj` is described by a direct successor of node n
LeavesBelow(n, obj) ==
    \A leaf \in LeavesOf(obj) :
        \E v \in Range(Successors(execution_dag, n)) : DescribesLeaf(v, leaf)

\* C21: every leaf value logged for a call, as an argument, as a result or nested in
\* a container argument or result, is a value node with type and fingerprint that is a
\* direct successor of the call's node, and no node stands for a container: every
\* node is a call node or a value node
C21_LeavesBelowCall ==
    /\ \A i \in 1..Len(hist.began) :
          SigOK(hist.began[i].base) =>
             \A a \in 1..Len(hist.began[i].args) :
                 LeavesBelow(hist.began[i].node, hist.began[i].args[a][2])
    /\ hist.lastExit.kind = "return" =>
          \A n \in Range(hist.lastExit.nodes) : LeavesBelow(n, hist.lastExit.actual)
    /\ \A n \in DOMAIN execution_dag.attr :
          n \in CallNodes \/ "id" \in DOMAIN execution_dag.attr[n]

\* display_dag_info, lines 465-472: node[1]['count'] of every node, then
\* edge[2]['weight'] of every edge; a missing key raises KeyError
display_dag_info(G) ==
    IF \/ \E n \in DOMAIN G.attr : "count" \notin DOMAIN G.attr[n]
       \/ \E e \in DOMAIN G.eattr : "weight" \notin DOMAIN G.eattr[e]
    THEN "KeyError" ELSE "listed"

\* C22: every node of the graph carries a count and every edge a weight, so that
\* display_dag_info lists all of them without failing
C22_CountAndWeightEverywhere ==
    /\ \A n \in DOMAIN execution_dag.attr : "count" \in DOMAIN execution_dag.attr[n]
    /\ \A e \in DOMAIN execution_dag.eattr : "weight" \in DOMAIN execution_dag.eattr[e]
    /\ display_dag_info(execution_dag) = "listed"

(***************************************************************************)
(* Levels as distances.                                                    *)
(***************************************************************************)
\* the nodes without predecessor, line 432
Roots(G) == {n \in DOMAIN G.attr : InDegree(G, n) = 0}

\* the number of edges of a shortest path from `frontier` to n, the frontier being
\* d edges away from the roots; n is reachable
RECURSIVE FirstReached(_, _, _, _, _)
FirstReached(G, frontier, seen, d, n) ==
    IF n \in frontier \/ frontier = {} THEN d
    ELSE FirstReached(G, UNION {Range(G.succ[m]) : m \in frontier} \ (seen \cup frontier),
                      seen \cup frontier, d + 1, n)

\* the minimum edge distance of n from a root
Distance(G, n) == FirstReached(G, Roots(G), {}, 0, n)

\* C23: the level assign_levels returns for a node is the level at which the node is
\* first reached, its minimum edge distance from a root; a later discovery at a deeper
\* level does not change it
C23_LevelIsFirstReached ==
    levels.done =>
        \A n \in DOMAIN levels.levels : levels.levels[n] = Distance(execution_dag, n)

(***************************************************************************)
(* SpecTraceLevels: the run of Spec, with assign_levels applied once to    *)
(* the graph the wrappers have built so far.                               *)
(***************************************************************************)
NextTraceLevels ==
    \/ Next
    \/ AssignLevels

SpecTraceLevels == Init /\ [][NextTraceLevels]_vars

\* C24: on every graph the wrappers build, in either mode, a self-loop of a directly
\* recursive root call included, assign_levels gives every node a level
C24_EveryNodeLevelled ==
    [][AssignLevels => DOMAIN levels'.levels = DOMAIN execution_dag.attr]_vars

\* C25: assign_levels terminates on every finite directed graph, graphs with
\* self-loops and cycles included: the while loop reaches an empty list and returns
C25_AssignLevelsTerminates ==
    levels.done => levels.returned

\* assign_levels has returned on a graph with a self-loop and a longer cycle, after
\* more than one round of the loop
C25_Witness ==
    /\ levels.done
    /\ levels.returned
    /\ levels.rounds > 1
    /\ \E n \in DOMAIN execution_dag.attr : HasEdge(execution_dag, n, n)
    /\ \E u \in DOMAIN execution_dag.attr : \E v \in DOMAIN execution_dag.attr :
          u # v /\ HasEdge(execution_dag, u, v) /\ HasEdge(execution_dag, v, u)

(***************************************************************************)
(* SpecSteps: the steps that follow a load: calls of an instrumented       *)
(* function with their value logging, assign_levels, and save_dag and      *)
(* plot_dag under the names evaluation uses.                               *)
(***************************************************************************)
DagFile == [stem |-> "execution_dag", ext |-> ".pkl"]

PlotFile == [stem |-> "execution_dag", ext |-> ".png"]

InitSteps ==
    /\ execution_dag = EmptyDag
    /\ call_stack = <<>>
    /\ call_counts = <<>>
    /\ unique_id_cache = <<>>
    /\ config_loaded = TRUE
    /\ \E unique_calls \in BOOLEAN :
          wrappers = [t \in Targets |-> IF t = "f" THEN <<unique_calls>> ELSE <<>>]
    /\ frames = <<>>
    /\ budget = MaxStepCalls
    /\ hist = [began |-> <<>>, lastExit |-> NoExit, loads |-> 0, lastLoad |-> "none", loadSaw |-> <<>>]
    /\ fp = <<>>
    /\ levels = NoLevels
    /\ threads = NoThreads
    /\ files = NoFiles

NextSteps ==
    \/ \E t \in Targets : \E args \in ArgChoices(t) : Invoke(t, args)
    \/ \E t \in Targets : \E result \in ResultChoices(t) : Return(result)
    \/ Raise
    \/ AssignLevels
    \/ save_dag(DagFile)
    \/ \E ok \in BOOLEAN : plot_dag(PlotFile, ok)

SpecSteps == InitSteps /\ [][NextSteps]_vars

\* graph H holds every node and edge of G, with counts and weights at least as large
GrowsTo(G, H) ==
    /\ \A n \in DOMAIN G.attr :
          /\ HasNode(H, n)
          /\ "count" \in DOMAIN G.attr[n] =>
                "count" \in DOMAIN H.attr[n] /\ H.attr[n].count >= G.attr[n].count
    /\ \A e \in DOMAIN G.eattr :
          /\ HasEdge(H, e[1], e[2])
          /\ "weight" \in DOMAIN G.eattr[e] =>
                "weight" \in DOMAIN H.eattr[e] /\ H.eattr[e].weight >= G.eattr[e].weight

ObjectsAt(oid) ==
    {[k |-> "Obj", oid |-> oid, pickle |-> p, strOK |-> b] :
        p \in {"bytes", "caught", "uncaught"}, b \in BOOLEAN}

ListsAt(oid) ==
    UNION {{[k |-> "list", oid |-> oid, items |-> <<x>>],
            [k |-> "list", oid |-> oid, items |-> <<SmallInt(1), x>>]} :
              x \in ObjectsAt(oid + 10)}

TotalValues(oid) == TensorsAt(oid) \cup DictsAt(oid) \cup ObjectsAt(oid) \cup ListsAt(oid)

InitTotal ==
    /\ IdleTracer
    /\ \E v1 \in TotalValues(1) :
          fp = [pc |-> "start", v1 |-> v1, v2 |-> SmallInt(1), r1 |-> <<>>, r2 |-> <<>>]

SpecTotal == InitTotal /\ [][NextFingerprint]_vars

\* C27: apart from the empty tensor, get_unique_id is total: an error inside the
\* classification of a value never reaches the caller; the fingerprint made of the
\* type name and the textual form of the value is returned instead
C27_TotalApartFromEmpty ==
    (fp.pc = "done" /\ ~(IsTensor(fp.v1) /\ Len(fp.v1.data) = 0)) =>
        /\ ~fp.r1.raised
        /\ TryRaises(fp.v1) => fp.r1.h = FallbackHash(fp.v1)

(***************************************************************************)
(* SpecEval: the start of an evaluation process (eval.py, lines 66-95):    *)
(* the command line options, the files that hold configurations, and the   *)
(* environment variable TRACE_CONFIG_PATH.                                 *)
(***************************************************************************)
\* _LOCAL_CFG, the file beside tracing.py (line 412)
LocalCfg == "instrumentation/trace_config.json"

UserCfg == "user_trace_config.json"

EnvCfg == "env_trace_config.json"

\* a file that does not exist, or one holding functions_to_trace
CfgFiles == {<<"absent">>} \cup {<<"json", entries>> : entries \in ConfigLists}

CfgFs(local, user, env) ==
    [p \in {LocalCfg : x \in {local} \ {<<"absent">>}}
           \cup {UserCfg : x \in {user} \ {<<"absent">>}}
           \cup {EnvCfg : x \in {env} \ {<<"absent">>}} |->
        IF p = LocalCfg THEN local ELSE IF p = UserCfg THEN user ELSE env]

\* load_trace_config(path, unique_calls=False) on L = [wrappers, loaded], lines
\* 352-406: nothing once the flag is set; open() raises on a missing file; the flag
\* is set when every entry was applied
LoadFrom(L, fs, path) ==
    IF AlreadyLoaded(L.loaded) THEN L
    ELSE IF ~Exists(fs, path) THEN L
    ELSE [wrappers |-> ApplyConfig(L.wrappers, fs[path][2], FALSE).wrappers,
          loaded |-> ApplyConfig(L.wrappers, fs[path][2], FALSE).ok]

\* lines 420-425: the file TRACE_CONFIG_PATH names, if the variable is set and the
\* file exists
LoadEnvCfg(L, fs, env_cfg) == IF env_cfg = "" THEN L ELSE LoadFrom(L, fs, env_cfg)

\* the import of tracing.py, lines 408-425: the local file if it exists, then the
\* file of the environment; errors are printed
ImportTracing(L, fs, env_cfg) == LoadEnvCfg(LoadFrom(L, fs, LocalCfg), fs, env_cfg)

\* eval.py line 88: the user's path if one is given, else the local file
CfgJson(trace_config_path) == IF trace_config_path = "" THEN LocalCfg ELSE trace_config_path

InitEval ==
    /\ execution_dag = EmptyDag
    /\ call_stack = <<>>
    /\ call_counts = <<>>
    /\ unique_id_cache = <<>>
    /\ config_loaded = FALSE
    /\ wrappers = [t \in Targets |-> <<>>]
    /\ frames = <<>>
    /\ budget = 0
    /\ hist = [began |-> <<>>, lastExit |-> NoExit, loads |-> 0, lastLoad |-> "none", loadSaw |-> <<>>]
    /\ \E enable_trace \in BOOLEAN : \E trace_config_path \in {"", UserCfg} :
       \E env_cfg \in {"", EnvCfg} :
          fp = [pc |-> "start", enable_trace |-> enable_trace,
                trace_config_path |-> trace_config_path, env_cfg |-> env_cfg]
    /\ levels = NoLevels
    /\ threads = NoThreads
    /\ \E local \in CfgFiles : \E user \in CfgFiles : \E env \in CfgFiles :
          files = [NoFiles EXCEPT !.fs = CfgFs(local, user, env)]

\* eval.py lines 77-95 with enable_trace set: tracing.py is imported, then
\* load_trace_config is called on cfg_json if that file exists (lines 88-90)
EvalMainTraced ==
    /\ fp.pc = "start"
    /\ fp.enable_trace
    /\ \E L \in {LoadFrom(ImportTracing([wrappers |-> wrappers, loaded |-> config_loaded],
                                        files.fs, fp.env_cfg),
                          files.fs, CfgJson(fp.trace_config_path))} :
          /\ wrappers' = L.wrappers
          /\ config_loaded' = L.loaded
    /\ execution_dag' = EmptyDag
    /\ call_counts' = <<>>
    /\ call_stack' = <<>>
    /\ fp' = [fp EXCEPT !.pc = "traced"]
    /\ UNCHANGED <<unique_id_cache, frames, budget, hist, levels, files, threads>>

\* eval.py line 77 without enable_trace: tracing.py is not imported
EvalMainPlain ==
    /\ fp.pc = "start"
    /\ ~fp.enable_trace
    /\ fp' = [fp EXCEPT !.pc = "plain"]
    /\ UNCHANGED <<execution_dag, call_stack, call_counts, unique_id_cache, config_loaded,
                   wrappers, frames, budget, hist, levels, files, threads>>

NextEval ==
    \/ EvalMainTraced
    \/ EvalMainPlain

SpecEval == InitEval /\ [][NextEval]_vars

\* the targets that are wrapped
Instrumented == {t \in Targets : wrappers[t] # <<>>}

\* the targets a configuration file lists
ListedIn(path) == Range(files.fs[path][2]) \cap Targets

\* every entry of every configuration file names a target that can be wrapped
EveryEntryLoads == \A p \in DOMAIN files.fs : Range(files.fs[p][2]) \subseteq Targets

\* C28: when evaluation runs with enable_trace and a trace_config_path that exists,
\* the targets instrumented are the targets that file lists; the file beside
\* tracing.py is used only when no path is given (checked on configuration files
\* whose entries all load)
C28_UserConfigWins ==
    ( /\ fp.pc = "traced"
      /\ fp.trace_config_path # "" /\ Exists(files.fs, fp.trace_config_path)
      /\ EveryEntryLoads )
        => Instrumented = ListedIn(fp.trace_config_path)

(***************************************************************************)
(* The Call Stack and the invocations in progress.                         *)
(***************************************************************************)
\* the nodes of the wrappers of the frames fs, outermost first
RECURSIVE NodesOf(_)
NodesOf(fs) ==
    IF fs = <<>> THEN <<>>
    ELSE NodesOf(Front(fs)) \o [j \in 1..Len(Last(fs).layers) |-> Last(fs).layers[j].node]

\* the node ids of the instrumented invocations in progress
ActiveNodes == NodesOf(frames)

\* C30: in single-threaded execution the Call Stack is exactly the sequence of node
\* ids of the instrumented invocations in progress, outermost first, and the element
\* each wrapper exit removes is the node id that invocation pushed
C30_StackIsActiveInvocations ==
    /\ call_stack = ActiveNodes
    /\ hist.lastExit.kind \in {"return", "raise"} =>
          \A i \in 1..Len(hist.lastExit.exits) :
              hist.lastExit.exits[i].removed = hist.lastExit.exits[i].pushed

(***************************************************************************)
(* SpecThreads: two threads call instrumented functions from their top     *)
(* level, in non-unique mode, with no synchronization.  The module state   *)
(* is shared; `count += 1` of line 250 is a read followed by a write, and  *)
(* a thread can be preempted between the two and between the wrapper's     *)
(* entry and exit.                                                         *)
(***************************************************************************)
Threads == DOMAIN NoThreads

\* line 250 with the read and the write done in one step
StoreCountAtomic(read, current) == current + 1

\* line 250, the write: the value read earlier plus one, whatever the count is now
StoreCount(read, current) == read + 1

InitThreads ==
    /\ execution_dag = EmptyDag
    /\ call_stack = <<>>
    /\ call_counts = <<>>
    /\ unique_id_cache = <<>>
    /\ config_loaded = TRUE
    /\ wrappers = [t \in Targets |-> IF t \in {"f", "g"} THEN <<FALSE>> ELSE <<>>]
    /\ frames = <<>>
    /\ budget = MaxThreadCalls
    /\ hist = [began |-> <<>>, lastExit |-> NoExit, loads |-> 0, lastLoad |-> "none", loadSaw |-> <<>>]
    /\ fp = <<>>
    /\ levels = NoLevels
    /\ files = NoFiles
    /\ threads = NoThreads

\* lines 229-250 up to the read of the count: the node is created if it is absent
ThreadBegin(th, t, args) ==
    /\ threads[th].pc = "idle"
    /\ CanInvoke(t)
    /\ SigOK(t)
    /\ \E G \in {IF HasNode(execution_dag, NodeName(t, FALSE, 0)) THEN execution_dag
                 ELSE AddNode(execution_dag, NodeName(t, FALSE, 0), [count |-> 0])} :
          /\ execution_dag' = G
          /\ threads' = [threads EXCEPT ![th] =
                            [IdleThread EXCEPT !.pc = "counting", !.fn = t, !.args = args,
                                               !.read = G.attr[NodeName(t, FALSE, 0)].count]]
    /\ budget' = budget - 1
    /\ UNCHANGED <<call_stack, call_counts, unique_id_cache, config_loaded, wrappers,
                   frames, hist, fp, levels, files>>

\* the node on top of the shared stack, if the invocation that pushed it is running
\* in another thread
OtherActive(th) ==
    IF /\ call_stack # <<>>
       /\ \E o \in Threads \ {th} :
             /\ threads[o].pc = "running"
             /\ Last(threads[o].layers).node = Last(call_stack)
    THEN Last(call_stack) ELSE ""

\* the write of line 250, then lines 253-324: the caller is the top of the shared
\* stack, the edges are recorded, the node is pushed, the arguments are logged
ThreadEnter(th) ==
    /\ threads[th].pc = "counting"
    /\ \E St \in {EnterWrapper(EntryState, threads[th].fn, FALSE, threads[th].args, 0)} :
       \E node \in {Last(St.layers).node} :
          /\ execution_dag' = SetNodeAttr(St.dag, node, "count",
                                          StoreCount(threads[th].read,
                                                     execution_dag.attr[node].count))
          /\ unique_id_cache' = St.cache
          /\ call_stack' = St.stack
          /\ hist' = [hist EXCEPT !.began = St.began]
          /\ threads' = [threads EXCEPT ![th] =
                            [@ EXCEPT !.pc = "running", !.layers = St.layers,
                                      !.stale = execution_dag.attr[node].count # threads[th].read,
                                      !.overlap = OtherActive(th)]]
    /\ UNCHANGED <<call_counts, config_loaded, wrappers, frames, budget, fp, levels, files>>

\* lines 328-344: the function returns, the result is logged and the last element of
\* the shared stack is popped
ThreadExit(th, result) ==
    /\ threads[th].pc = "running"
    /\ result \in ResultChoices(threads[th].fn)
    /\ \E St \in {ReturnLayers([dag |-> execution_dag, cache |-> unique_id_cache,
                               stack |-> call_stack, exits |-> <<>>],
                              threads[th].layers, result)} :
          /\ execution_dag' = St.dag
          /\ unique_id_cache' = St.cache
          /\ call_stack' = St.stack
    /\ threads' = [threads EXCEPT ![th] = [@ EXCEPT !.pc = "idle"]]
    /\ UNCHANGED <<call_counts, config_loaded, wrappers, frames, budget, hist, fp, levels,
                   files>>

NextThreads ==
    \/ \E th \in Threads : \E t \in Targets : \E args \in ArgChoices(t) :
          ThreadBegin(th, t, args)
    \/ \E th \in Threads : ThreadEnter(th)
    \/ \E th \in Threads : \E t \in Targets : \E result \in ResultChoices(t) :
          ThreadExit(th, result)

SpecThreads == InitThreads /\ [][NextThreads]_vars

\* the wrapper entries made on node n
EntriesOn(n) == Cardinality({i \in 1..Len(hist.began) : hist.began[i].node = n})

\* C29: with two threads and no synchronization, an invocation that counts itself
\* while the other thread counts the same node leaves the node's count below the
\* number of invocations, and an invocation that enters while an invocation of the
\* other thread is on top of the stack is recorded as a callee of that one
C29_RacesLoseAndMisattribute ==
    \A th \in Threads :
        threads[th].pc = "running" =>
            /\ threads[th].stale =>
                  execution_dag.attr[Last(threads[th].layers).node].count
                      < EntriesOn(Last(threads[th].layers).node)
            /\ threads[th].overlap # "" =>
                  /\ HasEdge(execution_dag, threads[th].overlap,
                             Last(threads[th].layers).node)
                  /\ "weight" \in DOMAIN execution_dag.eattr[<<threads[th].overlap,
                                                              Last(threads[th].layers).node>>]

\* both threads have completed an invocation of f: the count of f is 1 for 2
\* invocations, and the edge f -> f is recorded though f never called f
C29_Witness ==
    /\ \A th \in Threads : threads[th].pc = "idle" /\ threads[th].fn = "f"
    /\ EntriesOn("f") = 2
    /\ execution_dag.attr["f"].count < EntriesOn("f")
    /\ \E th \in Threads : threads[th].stale
    /\ \E th \in Threads : threads[th].overlap = "f" /\ HasEdge(execution_dag, "f", "f")

CountOf(G, n) ==
    IF HasNode(G, n) /\ "count" \in DOMAIN G.attr[n] THEN G.attr[n].count ELSE 0

\* the step is one call of an instrumented target made from the top level
TopLevelCall == frames = <<>> /\ Len(frames') = 1

\* C32: every configured target is wrapped at most once per process: one call of a
\* target runs the interception protocol exactly once - the count of its node rises
\* by exactly 1, no other count changes and no self-edge appears - also when the
\* list names the target more than once or a load is retried after a failed one
C32_WrappedAtMostOnce ==
    [][TopLevelCall =>
          /\ \A t \in Targets : Len(wrappers[t]) <= 1
          /\ \E n \in DOMAIN execution_dag'.attr :
                /\ CountOf(execution_dag', n) = CountOf(execution_dag, n) + 1
                /\ \A m \in DOMAIN execution_dag'.attr \ {n} :
                      CountOf(execution_dag', m) = CountOf(execution_dag, m)
          /\ \A n \in DOMAIN execution_dag'.attr :
                HasEdge(execution_dag', n, n) => HasEdge(execution_dag, n, n)]_vars

(***************************************************************************)
(* Scheduler/gscore_schedule.py: pareto(df), lines 172-183, applied by     *)
(* main to the design points of at least 30 FPS (lines 214-215).  A design *)
(* point is a row [FPS, Area_mm2, Energy_mJ].                              *)
(***************************************************************************)
FpsFloor == 30

Rows ==
    {[FPS |-> FpsFloor - 1 + k, Area_mm2 |-> a, Energy_mJ |-> e] :
        k \in 0..MaxFpsSteps, a \in 0..MaxMetric, e \in 0..MaxMetric}

DataFrames == UNION {[1..n -> Rows] : n \in 0..MaxRows}

\* lines 178-180: the entry of `dom` for row r against row i of the loop
Dom(r, ri) ==
    /\ r.FPS >= ri.FPS
    /\ r.Area_mm2 <= ri.Area_mm2
    /\ r.Energy_mJ <= ri.Energy_mJ

\* lines 175-182: the loop from row i on, keep being the mask so far
RECURSIVE ParetoLoop(_, _, _)
ParetoLoop(df, keep, i) ==
    IF i > Len(df) THEN keep
    ELSE IF ~keep[i] THEN ParetoLoop(df, keep, i + 1)
    ELSE ParetoLoop(df, [j \in 1..Len(df) |-> keep[j] /\ ~(j # i /\ Dom(df[j], df[i]))],
                    i + 1)

\* the mask `keep` of line 183
pareto(df) == ParetoLoop(df, [j \in 1..Len(df) |-> TRUE], 1)

InitPareto ==
    /\ IdleTracer
    /\ \E df \in DataFrames : fp = [pc |-> "start", df |-> df, good |-> <<>>, keep |-> <<>>]

\* main, lines 214-215: good = df[df.FPS >= 30]; front = pareto(good)
ParetoFront ==
    /\ fp.pc = "start"
    /\ \E good \in {SelectSeq(fp.df, LAMBDA r : r.FPS >= FpsFloor)} :
          fp' = [fp EXCEPT !.pc = "done", !.good = good, !.keep = pareto(good)]
    /\ UNCHANGED <<execution_dag, call_stack, call_counts, unique_id_cache, config_loaded,
                   wrappers, frames, budget, hist, levels, files, threads>>

NextPareto == ParetoFront

SpecPareto == InitPareto /\ [][NextPareto]_vars

\* row r dominates row q: at least as good in FPS, area and energy, strictly better
\* in one of them
Dominates(r, q) ==
    /\ r.FPS >= q.FPS /\ r.Area_mm2 <= q.Area_mm2 /\ r.Energy_mJ <= q.Energy_mJ
    /\ r.FPS > q.FPS \/ r.Area_mm2 < q.Area_mm2 \/ r.Energy_mJ < q.Energy_mJ

\* C33: pareto(df) returns exactly the non-dominated design points: a row is kept if
\* and only if no other row dominates it
C33_ParetoIsNonDominated ==
    fp.pc = "done" =>
        \A i \in 1..Len(fp.good) :
            fp.keep[i] <=> ~\E j \in 1..Len(fp.good) : j # i /\ Dominates(fp.good[j], fp.good[i])

====
